---- MODULE Spec2Model ----
(***************************************************************************)
(* Verification model of the teacher_style_identification audio pipeline:  *)
(* the nearest-neighbour recognizer (recognizer.py), the evaluator         *)
(* (evaluation.py), the WAV codec (utils.py) and the harmonic feature      *)
(* extractor (features.py).                                                *)
(*                                                                         *)
(* Real numbers are modelled exactly: a rational is a reduced pair         *)
(* [num, den]; an L2-normalised vector v/|v| is the primitive integer      *)
(* direction of v together with the squared norm of that direction; a      *)
(* cosine similarity num/sqrt(den2) keeps its numerator and the square of  *)
(* its denominator.                                                        *)
(***************************************************************************)
EXTENDS Integers, Sequences, FiniteSets, TLC

VARIABLES
  embeddings,   \* NearestNeighborRecognizer._embeddings
  transcripts,  \* NearestNeighborRecognizer._transcripts
  last,         \* the recognizer call in progress at the caller, and its result
  codec,        \* the WAV codec: the signal saved, the file, the signal loaded
  feat          \* the feature extractor: its configuration, the call, its result

vars == <<embeddings, transcripts, last, codec, feat>>

\* Longest dataset / sample batch handed to fit, transcribe and evaluate.
MaxSamples == 3

(***************************************************************************)
(* Integer helpers                                                         *)
(***************************************************************************)
Abs(x) == IF x < 0 THEN -x ELSE x

RECURSIVE Gcd(_, _)
Gcd(a, b) == IF b = 0 THEN Abs(a) ELSE Gcd(b, a % b)

RECURSIVE SumSeq(_)
SumSeq(s) == IF s = <<>> THEN 0 ELSE Head(s) + SumSeq(Tail(s))

RECURSIVE GcdSeq(_)
GcdSeq(s) == IF s = <<>> THEN 0 ELSE Gcd(Head(s), GcdSeq(Tail(s)))

\* A reduced fraction num/den (den > 0).
Rat(n, d) ==
  LET g == Gcd(n, d)
      sgn == IF d < 0 THEN -1 ELSE 1
  IN  [num |-> sgn * (n \div g), den |-> sgn * (d \div g)]

\* int(n / d): the quotient cut towards zero.
Trunc(n, d) ==
  IF (n < 0) = (d < 0) THEN Abs(n) \div Abs(d) ELSE -(Abs(n) \div Abs(d))

\* |a - b| <= bound for three fractions (cross-multiplied, no division).
Within(a, b, bound) ==
  Abs(a.num * b.den - b.num * a.den) <= (bound.num * a.den * b.den) \div bound.den

(***************************************************************************)
(* The file system the recognizer reads.  Each audio file is abstracted to *)
(* what load_wav_mono + HarmonicFeatureExtractor.extract make of it: it is *)
(* absent, has a sample width outside SUPPORTED_SAMPLE_WIDTHS, or yields a *)
(* feature vector.  Feature vectors are non-negative, as every component   *)
(* extract returns is (mean |x|, std, variance, a rate, powers).           *)
(***************************************************************************)
Files ==
  [p \in {"calm_0.wav", "calm_1.wav", "energetic_0.wav", "silence.wav",
          "wide24.wav", "missing.wav"} |->
     CASE p = "calm_0.wav"      -> [exists |-> TRUE,  sampwidth |-> 2, features |-> <<3, 0>>]
       [] p = "calm_1.wav"      -> [exists |-> TRUE,  sampwidth |-> 2, features |-> <<1, 0>>]
       [] p = "energetic_0.wav" -> [exists |-> TRUE,  sampwidth |-> 2, features |-> <<1, 1>>]
       [] p = "silence.wav"     -> [exists |-> TRUE,  sampwidth |-> 1, features |-> <<0, 0>>]
       [] p = "wide24.wav"      -> [exists |-> TRUE,  sampwidth |-> 3, features |-> <<2, 1>>]
       [] p = "missing.wav"     -> [exists |-> FALSE, sampwidth |-> 2, features |-> <<0, 0>>]]

SUPPORTED_SAMPLE_WIDTHS == {1, 2, 4}

\* AudioSample(path, transcript): the labelled examples callers pass in.
Samples ==
  { [path |-> "calm_0.wav",      transcript |-> "calm"],
    [path |-> "calm_1.wav",      transcript |-> "energetic"],
    [path |-> "energetic_0.wav", transcript |-> "energetic"],
    [path |-> "silence.wav",     transcript |-> "calm"],
    [path |-> "wide24.wav",      transcript |-> "energetic"],
    [path |-> "missing.wav",     transcript |-> "calm"] }

\* Every sequence of samples a caller can pass (the empty one included:
\* fit, transcribe and evaluate_recognizer accept any iterable).
Datasets == UNION { [1..n -> Samples] : n \in 0..MaxSamples }

\* load_wav_mono followed by feature_extractor.extract, as fit and
\* predict_sample call them: the existence check, then the width check.
LoadAndExtract(path) ==
  IF ~Files[path].exists THEN [outcome |-> "MissingFile", features |-> <<>>]
  ELSE IF Files[path].sampwidth \notin SUPPORTED_SAMPLE_WIDTHS
       THEN [outcome |-> "UnsupportedEncoding", features |-> <<>>]
       ELSE [outcome |-> "ok", features |-> Files[path].features]

(***************************************************************************)
(* _normalize and _cosine_similarity                                       *)
(***************************************************************************)
\* The vector without the division by its norm.
NormalizeSkipped(vector) == [dir |-> vector, n2 |-> 1]

\* norm = sqrt(sum of squares); a zero vector stays zero, otherwise every
\* component is divided by the norm.  v/|v| is kept as the primitive
\* direction d = v/gcd(v) with n2 = |d|^2, i.e. the real vector d/sqrt(n2).
Normalize(vector) ==
  LET sq == SumSeq([i \in 1..Len(vector) |-> vector[i] * vector[i]])
      g  == GcdSeq(vector)
  IN  IF sq = 0
      THEN [dir |-> [i \in 1..Len(vector) |-> 0], n2 |-> 1]
      ELSE [dir |-> [i \in 1..Len(vector) |-> vector[i] \div g],
            n2  |-> sq \div (g * g)]

Min(a, b) == IF a < b THEN a ELSE b

\* sum(x * y for x, y in zip(a, b)) of two normalised vectors: the real
\* number num / sqrt(den2).
CosineSimilarity(a, b) ==
  [num  |-> SumSeq([i \in 1..Min(Len(a.dir), Len(b.dir)) |-> a.dir[i] * b.dir[i]]),
   den2 |-> a.n2 * b.n2]

\* s > t for two reals num/sqrt(den2).
SimGT(s, t) ==
  IF s.num >= 0
  THEN IF t.num >= 0 THEN s.num * s.num * t.den2 > t.num * t.num * s.den2
                     ELSE TRUE
  ELSE IF t.num >= 0 THEN FALSE
                     ELSE s.num * s.num * t.den2 < t.num * t.num * s.den2

SimGE(s, t) == ~SimGT(t, s)

\* The canonical name of the real num/sqrt(den2): its sign and its square
\* as a reduced fraction.
SimValue(s) ==
  LET g == Gcd(s.num * s.num, s.den2)
  IN  [sign |-> IF s.num < 0 THEN -1 ELSE IF s.num = 0 THEN 0 ELSE 1,
       sq_num |-> (s.num * s.num) \div g, sq_den |-> s.den2 \div g]

\* 1.0 - best_similarity
Distance(s) == [one_minus |-> SimValue(s)]

(***************************************************************************)
(* NearestNeighborRecognizer                                               *)
(***************************************************************************)
is_fitted(emb) == emb # <<>>

\* The body of fit's loop over the dataset from position i on, building the
\* local lists; the first failing sample aborts it.
RECURSIVE FitLoop(_, _, _, _)
FitLoop(dataset, i, embs, trs) ==
  IF i > Len(dataset) THEN [outcome |-> "ok", embeddings |-> embs, transcripts |-> trs]
  ELSE LET loaded == LoadAndExtract(dataset[i].path)
       IN  IF loaded.outcome # "ok"
           THEN [outcome |-> loaded.outcome, embeddings |-> embs, transcripts |-> trs]
           ELSE FitLoop(dataset, i + 1,
                        Append(embs, Normalize(loaded.features)),
                        Append(trs, dataset[i].transcript))

\* fit appending to the recognizer's own lists instead of fresh ones.
FitResultExtending(emb, trs, dataset) ==
  LET built == FitLoop(dataset, 1, emb, trs)
  IN  IF built.outcome # "ok"
      THEN [outcome |-> built.outcome, embeddings |-> emb, transcripts |-> trs]
      ELSE IF built.embeddings = <<>>
           THEN [outcome |-> "EmptyDataset", embeddings |-> emb, transcripts |-> trs]
           ELSE built

\* fit clearing and filling the recognizer's own lists as it goes.
FitResultInPlace(emb, trs, dataset) ==
  LET built == FitLoop(dataset, 1, <<>>, <<>>)
  IN  IF built.outcome = "ok" /\ built.embeddings = <<>>
      THEN [outcome |-> "EmptyDataset", embeddings |-> <<>>, transcripts |-> <<>>]
      ELSE built

\* fit as a function of the recognizer's lists: the outcome and the lists
\* the recognizer holds afterwards.
FitResult(emb, trs, dataset) ==
  LET built == FitLoop(dataset, 1, <<>>, <<>>)
  IN  IF built.outcome # "ok"
      THEN [outcome |-> built.outcome, embeddings |-> emb, transcripts |-> trs]
      ELSE IF built.embeddings = <<>>
           THEN [outcome |-> "EmptyDataset", embeddings |-> emb, transcripts |-> trs]
           ELSE built

\* The scan with >= in place of >: the last of several equal references wins.
RECURSIVE ScanLastWins(_, _, _, _, _)
ScanLastWins(emb, features, i, best_index, best_similarity) ==
  IF i > Len(emb) THEN [best_index |-> best_index, best_similarity |-> best_similarity]
  ELSE LET similarity == CosineSimilarity(emb[i], features)
       IN  IF SimGE(similarity, best_similarity)
           THEN ScanLastWins(emb, features, i + 1, i, similarity)
           ELSE ScanLastWins(emb, features, i + 1, best_index, best_similarity)

\* The scan of predict_sample over the reference set from index i on
\* (1-based here; index 0 of the code is 1).
RECURSIVE Scan(_, _, _, _, _)
Scan(emb, features, i, best_index, best_similarity) ==
  IF i > Len(emb) THEN [best_index |-> best_index, best_similarity |-> best_similarity]
  ELSE LET similarity == CosineSimilarity(emb[i], features)
       IN  IF SimGT(similarity, best_similarity)
           THEN Scan(emb, features, i + 1, i, similarity)
           ELSE Scan(emb, features, i + 1, best_index, best_similarity)

NoResult == <<>>

\* predict_sample without its is_fitted() check: on an empty reference set
\* the scan finds nothing and self._transcripts[0] raises IndexError.
PredictSampleUnguarded(emb, trs, sample) ==
  LET loaded == LoadAndExtract(sample.path)
  IN  IF loaded.outcome # "ok" THEN [outcome |-> loaded.outcome, result |-> NoResult]
      ELSE IF emb = <<>> THEN [outcome |-> "IndexError", result |-> NoResult]
      ELSE LET features == Normalize(loaded.features)
               best == Scan(emb, features, 1, 1, [num |-> -1, den2 |-> 1])
           IN  [outcome |-> "ok",
                result  |-> <<[sample |-> sample,
                               predicted_transcript |-> trs[best.best_index],
                               distance |-> Distance(best.best_similarity)]>>]

PredictSample(emb, trs, sample) ==
  IF ~is_fitted(emb) THEN [outcome |-> "NotFitted", result |-> NoResult]
  ELSE LET loaded == LoadAndExtract(sample.path)
       IN  IF loaded.outcome # "ok" THEN [outcome |-> loaded.outcome, result |-> NoResult]
           ELSE LET features == Normalize(loaded.features)
                    best == Scan(emb, features, 1, 1, [num |-> -1, den2 |-> 1])
                IN  [outcome |-> "ok",
                     result  |-> <<[sample |-> sample,
                                    predicted_transcript |-> trs[best.best_index],
                                    distance |-> Distance(best.best_similarity)]>>]

\* [self.predict_sample(sample) for sample in samples], from position i on.
RECURSIVE TranscribeLoop(_, _, _, _, _)
TranscribeLoop(emb, trs, samples, i, results) ==
  IF i > Len(samples) THEN [outcome |-> "ok", results |-> results]
  ELSE LET r == PredictSample(emb, trs, samples[i])
       IN  IF r.outcome # "ok" THEN [outcome |-> r.outcome, results |-> <<>>]
           ELSE TranscribeLoop(emb, trs, samples, i + 1, results \o r.result)

\* transcribe walking the samples back to front.
TranscribeReversed(emb, trs, samples) ==
  TranscribeLoop(emb, trs, [i \in 1..Len(samples) |-> samples[Len(samples) + 1 - i]], 1, <<>>)

TranscribeResult(emb, trs, samples) == TranscribeLoop(emb, trs, samples, 1, <<>>)

(***************************************************************************)
(* evaluate_recognizer                                                     *)
(***************************************************************************)
\* row[pred] += 1 on a defaultdict(int); a dict keeps its keys in insertion
\* order, so a row is the sequence of its (pred, count) items.
RowAdd(row, p) ==
  IF \E j \in 1..Len(row) : row[j].pred = p
  THEN [j \in 1..Len(row) |->
          IF row[j].pred = p THEN [pred |-> p, count |-> row[j].count + 1] ELSE row[j]]
  ELSE Append(row, [pred |-> p, count |-> 1])

\* The transposed update, confusion[pred][truth] += 1.
ConfusionAddSwapped(conf, t, p) ==
  IF \E i \in 1..Len(conf) : conf[i].truth = p
  THEN [i \in 1..Len(conf) |->
          IF conf[i].truth = p
          THEN [truth |-> p, preds |-> RowAdd(conf[i].preds, t)] ELSE conf[i]]
  ELSE Append(conf, [truth |-> p, preds |-> RowAdd(<<>>, t)])

\* confusion[truth][pred] += 1 on a defaultdict of defaultdicts.
ConfusionAdd(conf, t, p) ==
  IF \E i \in 1..Len(conf) : conf[i].truth = t
  THEN [i \in 1..Len(conf) |->
          IF conf[i].truth = t
          THEN [truth |-> t, preds |-> RowAdd(conf[i].preds, p)] ELSE conf[i]]
  ELSE Append(conf, [truth |-> t, preds |-> RowAdd(<<>>, p)])

\* for result in results: confusion[truth][predicted] += 1, from position i on.
RECURSIVE ConfusionLoop(_, _, _)
ConfusionLoop(results, i, conf) ==
  IF i > Len(results) THEN conf
  ELSE ConfusionLoop(results, i + 1,
         ConfusionAdd(conf, results[i].sample.transcript, results[i].predicted_transcript))

\* sum(result.predicted_transcript == result.sample.transcript ...)
RECURSIVE CountCorrect(_, _)
CountCorrect(results, i) ==
  IF i > Len(results) THEN 0
  ELSE (IF results[i].predicted_transcript = results[i].sample.transcript THEN 1 ELSE 0)
       + CountCorrect(results, i + 1)

NoReport == <<>>

EvaluateResult(emb, trs, dataset) ==
  LET t == TranscribeResult(emb, trs, dataset)
      total == Len(t.results)
  IN  IF t.outcome # "ok" THEN [outcome |-> t.outcome, results |-> <<>>, report |-> NoReport]
      ELSE IF total = 0
           THEN [outcome |-> "EmptyResultSet", results |-> t.results, report |-> NoReport]
           ELSE [outcome |-> "ok", results |-> t.results,
                 report  |-> <<[accuracy      |-> Rat(CountCorrect(t.results, 1), total),
                                total_samples |-> total,
                                confusion     |-> ConfusionLoop(t.results, 1, <<>>)]>>]

(***************************************************************************)
(* utils.py: save_wav_mono and load_wav_mono over one path of the disk.    *)
(* A WAV file is its header fields and its data bytes; a signal is a       *)
(* sequence of fractions.                                                  *)
(***************************************************************************)
\* Signal values n/d with d up to ValueDen, a little beyond [-1, 1].
ValueDen == 3

\* Longest signal handed to save_wav_mono.
MaxWavLen == 2

SignalValues == UNION { { Rat(n, d) : n \in -(d + 1)..(d + 1) } : d \in 1..ValueDen }

WavSignals == UNION { [1..n -> SignalValues] : n \in 0..MaxWavLen }

SampleRates == {8000, 16000}

NoFile == [exists |-> FALSE, nchannels |-> 0, sampwidth |-> 0, framerate |-> 0, raw |-> <<>>]

\* array("h").tobytes(): two bytes per sample, low byte first, two's complement.
ToBytes16(int_samples) ==
  [b \in 1..(2 * Len(int_samples)) |->
     LET x == int_samples[(b + 1) \div 2]
         u == IF x < 0 THEN x + 65536 ELSE x
     IN  IF b % 2 = 1 THEN u % 256 ELSE u \div 256]

\* array(typecode).frombytes(raw) for typecode B (1 byte, unsigned), h and i
\* (2 and 4 bytes, signed, low byte first).
RECURSIVE Unsigned(_, _, _)
Unsigned(raw, first, width) ==
  IF width = 0 THEN 0 ELSE raw[first] + 256 * Unsigned(raw, first + 1, width - 1)

FromBytes(raw, width) ==
  [k \in 1..(Len(raw) \div width) |->
     LET u == Unsigned(raw, (k - 1) * width + 1, width)
     IN  IF width > 1 /\ u >= 2 ^ (8 * width - 1) THEN u - 2 ^ (8 * width) ELSE u]

\* min(1.0, max(-1.0, value))
Clip(value) ==
  IF value.num > value.den THEN [num |-> 1, den |-> 1]
  ELSE IF value.num < -value.den THEN [num |-> -1, den |-> 1]
  ELSE value

\* Quantising with the decoder's scale 32768 and no guard for +1.0, which
\* does not fit 16 bits and wraps.
QuantizeWrapping(value) ==
  LET x == Trunc(value.num * 32768, value.den)
  IN  IF x > 32767 THEN x - 65536 ELSE x

\* int(value * 32767.0)
Quantize(value) == Trunc(value.num * 32767, value.den)

\* save_wav_mono: the file it writes.
SaveWavMono(signal, sample_rate) ==
  LET clipped == [i \in 1..Len(signal) |-> Clip(signal[i])]
      int_samples == [i \in 1..Len(signal) |-> Quantize(clipped[i])]
  IN  [exists |-> TRUE, nchannels |-> 1, sampwidth |-> 2,
       framerate |-> sample_rate, raw |-> ToBytes16(int_samples)]

\* The downmix of load_wav_mono: int(sum(chunk) / len(chunk)) per frame.
Downmix(audio, channels) ==
  [f \in 1..((Len(audio) + channels - 1) \div channels) |->
     LET lo == (f - 1) * channels + 1
         hi == Min(f * channels, Len(audio))
     IN  Trunc(SumSeq([c \in 1..(hi - lo + 1) |-> audio[lo + c - 1]]), hi - lo + 1)]

\* load_wav_mono: (result, sample_rate) or the exception it raises.
LoadWavMono(file) ==
  IF ~file.exists THEN [outcome |-> "MissingFile", signal |-> <<>>, sample_rate |-> 0]
  ELSE IF file.sampwidth \notin SUPPORTED_SAMPLE_WIDTHS
       THEN [outcome |-> "UnsupportedEncoding", signal |-> <<>>, sample_rate |-> 0]
       ELSE LET decoded == FromBytes(file.raw, file.sampwidth)
                audio == IF file.nchannels > 1 THEN Downmix(decoded, file.nchannels)
                         ELSE decoded
                max_value == 2 ^ (8 * file.sampwidth - 1)
            IN  [outcome |-> "ok",
                 signal  |-> IF file.sampwidth = 1
                             THEN [i \in 1..Len(audio) |-> Rat(audio[i] - 128, 128)]
                             ELSE [i \in 1..Len(audio) |-> Rat(audio[i], max_value)],
                 sample_rate |-> file.framerate]

\* Files that did not come from save_wav_mono: 8-bit mono, 16-bit stereo
\* and 24-bit mono.
ForeignFiles ==
  { [exists |-> TRUE, nchannels |-> 1, sampwidth |-> 1, framerate |-> 8000,
     raw |-> <<0, 128, 255>>],
    [exists |-> TRUE, nchannels |-> 2, sampwidth |-> 2, framerate |-> 16000,
     raw |-> ToBytes16(<<100, -101, 32767, -32768, -7, 2>>)],
    [exists |-> TRUE, nchannels |-> 1, sampwidth |-> 3, framerate |-> 16000,
     raw |-> <<1, 2, 3>>] }

CodecIdle ==
  [op |-> "idle", signal |-> <<>>, sample_rate |-> 0, file |-> NoFile,
   outcome |-> "ok", loaded |-> <<>>, loaded_rate |-> 0]

(***************************************************************************)
(* features.py: HarmonicFeatureExtractor.  Signal values are fractions; a  *)
(* feature is the real (num/den)^(1/root), root 1 for a fraction and 2 for *)
(* the square root of one (std).  Rates and frequencies are small numbers  *)
(* chosen so that every probe angle 2*pi*f*n/rate is a whole number of     *)
(* quarter turns, where cos and sin are exactly 0, 1 or -1.                *)
(***************************************************************************)
\* Longest signal handed to extract and to _zero_crossing_rate.
MaxSignalLen == 3

\* Most probe frequencies in an extractor configuration.
MaxProbes == 2

RAdd(a, b) == Rat(a.num * b.den + b.num * a.den, a.den * b.den)

RSub(a, b) == Rat(a.num * b.den - b.num * a.den, a.den * b.den)

RMul(a, b) == Rat(a.num * b.num, a.den * b.den)

RAbs(a) == [num |-> Abs(a.num), den |-> a.den]

RECURSIVE RSum(_)
RSum(s) == IF s = <<>> THEN Rat(0, 1) ELSE RAdd(Head(s), RSum(Tail(s)))

Real(r) == [root |-> 1, num |-> r.num, den |-> r.den]

\* math.sqrt of a fraction; sqrt(0.0) is 0.0.
Sqrt(r) == IF r.num = 0 THEN Real(r) ELSE [root |-> 2, num |-> r.num, den |-> r.den]

ZeroFeature == Real(Rat(0, 1))

\* round(n / d) for n >= 0 < d as Python rounds: halves go to the even side.
RoundHalfEven(n, d) ==
  LET q == n \div d
      r == n % d
  IN  IF 2 * r < d THEN q
      ELSE IF 2 * r > d THEN q + 1
      ELSE IF q % 2 = 0 THEN q ELSE q + 1

Max(a, b) == IF a > b THEN a ELSE b

\* _resample: piecewise-linear interpolation to target_sr.
Resample(signal, orig_sr, target_sr) ==
  IF orig_sr = target_sr \/ signal = <<>> THEN signal
  ELSE LET n == Len(signal)
           target_length == Max(1, RoundHalfEven(n * target_sr, orig_sr))
           step == Rat(n - 1, Max(target_length - 1, 1))
       IN  [k \in 1..target_length |->
              LET pos == RMul(Rat(k - 1, 1), step)
                  left == pos.num \div pos.den
                  right == Min(left + 1, n - 1)
                  frac == RSub(pos, Rat(left, 1))
              IN  RAdd(RMul(RSub(Rat(1, 1), frac), signal[left + 1]),
                       RMul(frac, signal[right + 1]))]

\* The pairs _zero_crossing_rate counts:
\* (prev >= 0 > value) or (prev <= 0 < value).
Crossing(prev, value) ==
  \/ (prev.num >= 0 /\ 0 > value.num)
  \/ (prev.num <= 0 /\ 0 < value.num)

ZeroCrossingRate(signal) ==
  IF Len(signal) < 2 THEN Rat(0, 1)
  ELSE Rat(Cardinality({ i \in 2..Len(signal) : Crossing(signal[i - 1], signal[i]) }),
           Len(signal) - 1)

\* cos and sin of q quarter turns.
CosQ(q) == CASE q % 4 = 0 -> 1 [] q % 4 = 2 -> -1 [] OTHER -> 0

SinQ(q) == CASE q % 4 = 1 -> 1 [] q % 4 = 3 -> -1 [] OTHER -> 0

\* _average_power: (2 / len) * (cos_sum^2 + sin_sum^2) of the correlation
\* with the probe frequency; 0 for a frequency <= 0.
AveragePower(signal, frequency, sample_rate) ==
  IF frequency <= 0 THEN Rat(0, 1)
  ELSE LET q(index) == (4 * frequency * index) \div sample_rate
           cos_sum == RSum([k \in 1..Len(signal) |-> RMul(signal[k], Rat(CosQ(q(k - 1)), 1))])
           sin_sum == RSum([k \in 1..Len(signal) |-> RMul(signal[k], Rat(SinQ(q(k - 1)), 1))])
       IN  RMul(Rat(2, Len(signal)), RAdd(RMul(cos_sum, cos_sum), RMul(sin_sum, sin_sum)))

\* extract with the vector for an empty signal one entry per probe only.
ExtractShortZeros(config, signal, sample_rate) ==
  [k \in 1..Len(config.probe_frequencies) |-> ZeroFeature]

\* extract(signal, sample_rate) of an extractor configured as config.
Extract(config, signal, sample_rate) ==
  LET sig == IF sample_rate # config.sample_rate
             THEN Resample(signal, sample_rate, config.sample_rate)
             ELSE signal
      n == Len(sig)
  IN  IF sig = <<>>
      THEN [k \in 1..(Len(config.probe_frequencies) + 4) |-> ZeroFeature]
      ELSE LET mean == RMul(RSum(sig), Rat(1, n))
               variance == RMul(RSum([k \in 1..n |->
                                        RMul(RSub(sig[k], mean), RSub(sig[k], mean))]),
                                Rat(1, n))
               std == Sqrt(variance)
               mean_abs == RMul(RSum([k \in 1..n |-> RAbs(sig[k])]), Rat(1, n))
               zero_crossings == ZeroCrossingRate(sig)
               powers == [k \in 1..Len(config.probe_frequencies) |->
                            Real(AveragePower(sig, config.probe_frequencies[k],
                                              config.sample_rate))]
           IN  <<Real(mean_abs), std, Real(variance), Real(zero_crossings)>> \o powers

\* Extractor configurations: the rate 4 and up to MaxProbes probes among a
\* negative frequency, 0, a quarter and a half of the rate.
Configs ==
  { [sample_rate |-> 4, probe_frequencies |-> pf] :
      pf \in UNION { [1..k -> {-1, 0, 1, 2}] : k \in 0..MaxProbes } }

InputRates == {2, 4, 6, 8}

FeatSignals == UNION { [1..n -> {Rat(-1, 1), Rat(0, 1), Rat(1, 2), Rat(1, 1)}] : n \in 0..MaxSignalLen }

FeatIdle(config) ==
  [op |-> "idle", config |-> config, signal |-> <<>>, sample_rate |-> 0, out |-> <<>>]

BareConfig == [sample_rate |-> 4, probe_frequencies |-> <<>>]

(***************************************************************************)
(* The recognizer as a state machine: one action per public operation.     *)
(* last records the most recent call: its operation, its argument, whether *)
(* is_fitted() held when it was made, how it ended and what it returned.   *)
(***************************************************************************)
Idle ==
  [op |-> "idle", input |-> <<>>, fitted_before |-> FALSE,
   outcome |-> "ok", results |-> <<>>, report |-> NoReport]

Init ==
  /\ embeddings = <<>>
  /\ transcripts = <<>>
  /\ last = Idle
  /\ codec = CodecIdle
  /\ feat = FeatIdle(BareConfig)

Fit ==
  /\ last.op = "idle"
  /\ \E dataset \in Datasets :
       LET r == FitResult(embeddings, transcripts, dataset)
       IN  /\ embeddings' = r.embeddings
           /\ transcripts' = r.transcripts
           /\ last' = [op |-> "fit", input |-> dataset,
                       fitted_before |-> is_fitted(embeddings),
                       outcome |-> r.outcome, results |-> <<>>, report |-> NoReport]
  /\ UNCHANGED <<codec, feat>>

Predict ==
  /\ last.op = "idle"
  /\ \E sample \in Samples :
       LET r == PredictSample(embeddings, transcripts, sample)
       IN  last' = [op |-> "predict", input |-> <<sample>>,
                    fitted_before |-> is_fitted(embeddings),
                    outcome |-> r.outcome, results |-> r.result, report |-> NoReport]
  /\ UNCHANGED <<embeddings, transcripts, codec, feat>>

Transcribe ==
  /\ last.op = "idle"
  /\ \E samples \in Datasets :
       LET r == TranscribeResult(embeddings, transcripts, samples)
       IN  last' = [op |-> "transcribe", input |-> samples,
                    fitted_before |-> is_fitted(embeddings),
                    outcome |-> r.outcome, results |-> r.results, report |-> NoReport]
  /\ UNCHANGED <<embeddings, transcripts, codec, feat>>

Evaluate ==
  /\ last.op = "idle"
  /\ \E dataset \in Datasets :
       LET r == EvaluateResult(embeddings, transcripts, dataset)
       IN  last' = [op |-> "evaluate", input |-> dataset,
                    fitted_before |-> is_fitted(embeddings),
                    outcome |-> r.outcome, results |-> r.results, report |-> r.report]
  /\ UNCHANGED <<embeddings, transcripts, codec, feat>>

\* The caller is done with what the call returned or raised (the result or
\* the exception goes out of scope) and is free to make its next call.
Consume ==
  /\ last.op # "idle"
  /\ last' = Idle
  /\ UNCHANGED <<embeddings, transcripts, codec, feat>>

Next == Fit \/ Predict \/ Transcribe \/ Evaluate \/ Consume

Spec == Init /\ [][Next]_vars

(***************************************************************************)
(* The codec as a state machine over one path.                             *)
(***************************************************************************)
clsVars == <<embeddings, transcripts, last>>

InitCodec ==
  /\ embeddings = <<>> /\ transcripts = <<>> /\ last = Idle
  /\ feat = FeatIdle(BareConfig)
  /\ codec = CodecIdle

\* save_wav_mono(path, signal, sample_rate)
SaveWav ==
  /\ codec.op = "idle"
  /\ \E signal \in WavSignals, sample_rate \in SampleRates :
       codec' = [CodecIdle EXCEPT !.op = "save", !.signal = signal,
                                  !.sample_rate = sample_rate,
                                  !.file = SaveWavMono(signal, sample_rate)]
  /\ UNCHANGED <<clsVars, feat>>

\* A file from elsewhere is put at the path.
PlaceFile ==
  /\ codec.op = "idle"
  /\ \E file \in ForeignFiles : codec' = [CodecIdle EXCEPT !.op = "place", !.file = file]
  /\ UNCHANGED <<clsVars, feat>>

\* load_wav_mono(path)
LoadWav ==
  /\ codec.op \in {"idle", "save", "place"}
  /\ LET r == LoadWavMono(codec.file)
     IN  codec' = [codec EXCEPT !.op = IF codec.op = "save" THEN "save_load" ELSE "load",
                                !.outcome = r.outcome, !.loaded = r.signal,
                                !.loaded_rate = r.sample_rate]
  /\ UNCHANGED <<clsVars, feat>>

\* The caller is done with the loaded signal and removes the file.
Cleanup ==
  /\ codec.op \in {"load", "save_load"}
  /\ codec' = CodecIdle
  /\ UNCHANGED <<clsVars, feat>>

NextCodec == SaveWav \/ PlaceFile \/ LoadWav \/ Cleanup

SpecCodec == InitCodec /\ [][NextCodec]_vars

(***************************************************************************)
(* The feature extractor as a state machine: a configured extractor and    *)
(* the calls made on it.                                                   *)
(***************************************************************************)
InitFeatures ==
  /\ embeddings = <<>> /\ transcripts = <<>> /\ last = Idle
  /\ codec = CodecIdle
  /\ feat \in { FeatIdle(config) : config \in Configs }

\* extractor.extract(signal, sample_rate)
ExtractCall ==
  /\ feat.op = "idle"
  /\ \E signal \in FeatSignals, sample_rate \in InputRates :
       feat' = [feat EXCEPT !.op = "extract", !.signal = signal,
                            !.sample_rate = sample_rate,
                            !.out = Extract(feat.config, signal, sample_rate)]
  /\ UNCHANGED <<clsVars, codec>>

\* HarmonicFeatureExtractor._zero_crossing_rate(signal)
ZeroCrossingCall ==
  /\ feat.op = "idle"
  /\ \E signal \in FeatSignals :
       feat' = [feat EXCEPT !.op = "zcr", !.signal = signal,
                            !.out = <<Real(ZeroCrossingRate(signal))>>]
  /\ UNCHANGED <<clsVars, codec>>

\* The caller is done with the returned value.
Discard ==
  /\ feat.op # "idle"
  /\ feat' = FeatIdle(feat.config)
  /\ UNCHANGED <<clsVars, codec>>

NextFeatures == ExtractCall \/ ZeroCrossingCall \/ Discard

SpecFeatures == InitFeatures /\ [][NextFeatures]_vars

InRange(value) == -value.den <= value.num /\ value.num <= value.den

\* C7 as stated: a signal within [-1, 1] that is saved and loaded comes back
\* with the same rate and length and every sample within 1/32767.
C7_Original ==
  (codec.op = "save_load" /\ \A i \in 1..Len(codec.signal) : InRange(codec.signal[i])) =>
    /\ codec.outcome = "ok"
    /\ codec.loaded_rate = codec.sample_rate
    /\ Len(codec.loaded) = Len(codec.signal)
    /\ \A i \in 1..Len(codec.signal) :
         Within(codec.signal[i], codec.loaded[i], [num |-> 1, den |-> 32767])

\* C7: a signal within [-1, 1] that is saved and loaded comes back with the
\* same rate and length and every sample within 2/32768 = 1/16384 of the
\* original (truncation loses up to one step, the 32767/32768 mismatch of
\* the two scales up to another).
C7_RoundTripWithinTwoSteps ==
  (codec.op = "save_load" /\ \A i \in 1..Len(codec.signal) : InRange(codec.signal[i])) =>
    /\ codec.outcome = "ok"
    /\ codec.loaded_rate = codec.sample_rate
    /\ Len(codec.loaded) = Len(codec.signal)
    /\ \A i \in 1..Len(codec.signal) :
         Within(codec.signal[i], codec.loaded[i], [num |-> 2, den |-> 32768])

\* A round trip of a two-sample signal holding 2/3 and -1, which comes back
\* further than 1/32767 from the original.
C7_Witness ==
  /\ codec.op = "save_load" /\ codec.outcome = "ok"
  /\ codec.signal = <<[num |-> 2, den |-> 3], [num |-> -1, den |-> 1]>>
  /\ ~Within(codec.signal[1], codec.loaded[1], [num |-> 1, den |-> 32767])

(***************************************************************************)
(* Properties of the recognizer and the evaluator                          *)
(***************************************************************************)
Labels == { s.transcript : s \in Samples }

Loadable(sample) ==
  Files[sample.path].exists /\ Files[sample.path].sampwidth \in SUPPORTED_SAMPLE_WIDTHS

\* The reference set is the one a fit on dataset builds: one normalised
\* vector and one label per sample, in the dataset's order.
HoldsExactly(emb, trs, dataset) ==
  /\ Len(emb) = Len(dataset)
  /\ Len(trs) = Len(dataset)
  /\ \A i \in 1..Len(dataset) :
       /\ emb[i] = Normalize(Files[dataset[i].path].features)
       /\ trs[i] = dataset[i].transcript

C1_Step ==
  /\ is_fitted(embeddings) => is_fitted(embeddings')
  /\ (last'.op = "fit" /\ last'.outcome = "ok")
       => HoldsExactly(embeddings', transcripts', last'.input)

\* C1: the recognizer starts unfitted; no call ever takes it from fitted back
\* to unfitted; and after every successful fit on a dataset D the reference
\* set holds exactly one (vector, label) entry per sample of D, in D's
\* order, and nothing of what it held before.
C1_OneWayLifecycle == (~is_fitted(embeddings)) /\ [][C1_Step]_vars

\* A successful re-fit on a one-sample dataset of a recognizer that was
\* already fitted.
C1_Witness ==
  /\ last.op = "fit" /\ last.outcome = "ok" /\ last.fitted_before
  /\ Len(last.input) = 1

C2_Step ==
  last'.op = "fit" =>
    /\ (last'.input = <<>> \/ \E i \in 1..Len(last'.input) : ~Loadable(last'.input[i]))
         => last'.outcome # "ok"
    /\ last'.outcome # "ok"
         => (embeddings' = embeddings /\ transcripts' = transcripts)

\* C2: a fit whose dataset is empty or holds a sample whose file is missing
\* or of unsupported width, at whatever position, fails, and a failing fit
\* leaves both lists of the reference set exactly as they were.
C2_FailedFitKeepsReferences == [][C2_Step]_vars

\* A fit on a fitted recognizer that failed at the middle one of three
\* samples, after the first had been loaded.
C2_Witness ==
  /\ last.op = "fit" /\ last.outcome = "UnsupportedEncoding" /\ last.fitted_before
  /\ Len(last.input) = 3
  /\ Loadable(last.input[1]) /\ ~Loadable(last.input[2])
  /\ is_fitted(embeddings)

\* C3 as stated: while unfitted, every predict and every transcribe fails
\* with NotFitted, returns nothing and leaves the reference set empty.
C3_Original ==
  (last.op \in {"predict", "transcribe"} /\ ~last.fitted_before) =>
    /\ last.outcome = "NotFitted"
    /\ last.results = <<>>
    /\ embeddings = <<>> /\ transcripts = <<>>

\* C3: while unfitted, every predict and every transcribe of at least one
\* sample fails with NotFitted and returns nothing; a transcribe of no
\* samples returns the empty list; either way the reference set stays empty.
C3_NotFittedUnlessNoSamples ==
  (last.op \in {"predict", "transcribe"} /\ ~last.fitted_before) =>
    /\ last.outcome = (IF last.input = <<>> THEN "ok" ELSE "NotFitted")
    /\ last.results = <<>>
    /\ embeddings = <<>> /\ transcripts = <<>>

\* A transcribe of two samples on the unfitted recognizer that raised
\* NotFitted.
C3_Witness ==
  /\ last.op = "transcribe" /\ ~last.fitted_before
  /\ Len(last.input) = 2 /\ last.outcome = "NotFitted"

\* The similarity of reference i to the query of the predict call in last.
QuerySimilarity(i) ==
  CosineSimilarity(embeddings[i], Normalize(Files[last.input[1].path].features))

C4_State ==
  (last.op = "predict" /\ last.outcome = "ok") =>
    /\ Len(last.results) = 1
    /\ last.results[1].sample = last.input[1]
    /\ \E i \in 1..Len(embeddings) :
         /\ \A j \in 1..Len(embeddings) : SimGE(QuerySimilarity(i), QuerySimilarity(j))
         /\ \A j \in 1..(i - 1) : SimGT(QuerySimilarity(i), QuerySimilarity(j))
         /\ last.results[1].predicted_transcript = transcripts[i]
         /\ last.results[1].distance = [one_minus |-> SimValue(QuerySimilarity(i))]

C4_Step ==
  last'.op = "predict" =>
    (embeddings' = embeddings /\ transcripts' = transcripts /\ C4_State')

\* C4: a successful predict returns the label of the lowest-index reference
\* among those of maximal similarity to the normalised query, with distance
\* 1 minus that similarity, and changes neither list of the reference set.
C4_NearestReference == [][C4_Step]_vars

\* A predict whose maximum is shared by two references carrying different
\* labels.
C4_Witness ==
  /\ last.op = "predict" /\ last.outcome = "ok"
  /\ \E i, j \in 1..Len(embeddings) :
       /\ i < j
       /\ transcripts[i] # transcripts[j]
       /\ SimValue(QuerySimilarity(i)) = SimValue(QuerySimilarity(j))
       /\ \A k \in 1..Len(embeddings) : SimGE(QuerySimilarity(i), QuerySimilarity(k))

\* The position at which label t first occurs as a true label in results.
FirstTruth(results, t) ==
  CHOOSE i \in 1..Len(results) :
    /\ results[i].sample.transcript = t
    /\ \A j \in 1..(i - 1) : results[j].sample.transcript # t

\* C5: a successful transcribe (or the transcribe inside evaluate) of a
\* fitted recognizer returns one result per input sample, the i-th being
\* what predict returns for the i-th sample alone; evaluate walks them in
\* that order, so the true labels enter the confusion mapping in the order
\* of their first occurrence in the input.
C5_TranscribeKeepsOrder ==
  (last.op \in {"transcribe", "evaluate"} /\ last.fitted_before /\ last.outcome = "ok") =>
    /\ Len(last.results) = Len(last.input)
    /\ \A i \in 1..Len(last.input) :
         /\ last.results[i].sample = last.input[i]
         /\ <<last.results[i]>> = PredictSample(embeddings, transcripts, last.input[i]).result
    /\ last.op = "evaluate" =>
         LET conf == last.report[1].confusion
         IN  \A a, b \in 1..Len(conf) :
               a < b => FirstTruth(last.results, conf[a].truth)
                          < FirstTruth(last.results, conf[b].truth)

\* A transcribe of three samples, not all the same, with two different
\* predicted labels.
C5_Witness ==
  /\ last.op = "transcribe" /\ last.fitted_before /\ last.outcome = "ok"
  /\ Len(last.input) = 3
  /\ last.input[1] # last.input[3]
  /\ last.results[1].predicted_transcript # last.results[3].predicted_transcript

\* confusion[t][p], or 0 where t or p is no key.
ConfusionCount(conf, t, p) ==
  IF \E i \in 1..Len(conf) : conf[i].truth = t /\ \E j \in 1..Len(conf[i].preds) : conf[i].preds[j].pred = p
  THEN LET i == CHOOSE i \in 1..Len(conf) : conf[i].truth = t
           j == CHOOSE j \in 1..Len(conf[i].preds) : conf[i].preds[j].pred = p
       IN  conf[i].preds[j].count
  ELSE 0

Occurrences(results, t, p) ==
  Cardinality({ i \in 1..Len(results) :
                  results[i].sample.transcript = t /\ results[i].predicted_transcript = p })

\* C6: a report is produced exactly for a non-empty result list; its
\* total_samples is the number of results, its accuracy the share of
\* results whose predicted label is the true one (so within [0,1]),
\* confusion[t][p] the number of results with truth t and prediction p, the
\* counts add up to total_samples, no key is repeated and no key carries a
\* count of 0; an empty result list makes evaluate fail with EmptyResultSet.
C6_ReportCounts ==
  last.op = "evaluate" =>
    /\ last.input = <<>> => (last.outcome = "EmptyResultSet" /\ last.report = NoReport)
    /\ last.outcome # "ok" => last.report = NoReport
    /\ last.outcome = "ok" =>
         /\ last.results # <<>> /\ Len(last.report) = 1
         /\ LET rep == last.report[1]
                conf == rep.confusion
                n == Len(last.results)
                correct == Cardinality({ i \in 1..n : last.results[i].predicted_transcript
                                                        = last.results[i].sample.transcript })
            IN  /\ rep.total_samples = n
                /\ rep.accuracy.den > 0
                /\ rep.accuracy.num * n = correct * rep.accuracy.den
                /\ 0 <= rep.accuracy.num /\ rep.accuracy.num <= rep.accuracy.den
                /\ \A t, p \in Labels : ConfusionCount(conf, t, p) = Occurrences(last.results, t, p)
                /\ \A a, b \in 1..Len(conf) : conf[a].truth = conf[b].truth => a = b
                /\ \A a \in 1..Len(conf) :
                     /\ conf[a].preds # <<>>
                     /\ \A x, y \in 1..Len(conf[a].preds) :
                          /\ conf[a].preds[x].count >= 1
                          /\ conf[a].preds[x].pred = conf[a].preds[y].pred => x = y
                /\ SumSeq([a \in 1..Len(conf) |->
                             SumSeq([x \in 1..Len(conf[a].preds) |-> conf[a].preds[x].count])]) = n

\* An evaluation of three samples, some predicted right and some wrong.
C6_Witness ==
  /\ last.op = "evaluate" /\ last.outcome = "ok"
  /\ Len(last.results) = 3
  /\ last.report[1].accuracy.num > 0
  /\ last.report[1].accuracy.num < last.report[1].accuracy.den

NonZero(v) == \E a \in 1..Len(v) : v[a] # 0

Parallel(v, w) == \A a, b \in 1..Len(v) : v[a] * w[b] = v[b] * w[a]

\* Samples of dataset that carry different labels have non-zero, pairwise
\* non-parallel feature vectors.
Separable(dataset) ==
  \A i, j \in 1..Len(dataset) :
    dataset[i].transcript # dataset[j].transcript =>
      LET v == Files[dataset[i].path].features
          w == Files[dataset[j].path].features
      IN  NonZero(v) /\ NonZero(w) /\ ~Parallel(v, w)

\* The recognizer is as a successful fit on dataset leaves it.
FittedOn(dataset) ==
  /\ dataset # <<>>
  /\ \A i \in 1..Len(dataset) : Loadable(dataset[i])
  /\ HoldsExactly(embeddings, transcripts, dataset)

\* C9: evaluating the recognizer on the dataset it was fitted on, when that
\* dataset is separable, predicts every sample with its own label: accuracy
\* is exactly 1, total_samples is the dataset's length and the confusion
\* mapping has no entry with true label different from predicted label.
C9_SelfEvaluationPerfect ==
  (last.op = "evaluate" /\ FittedOn(last.input) /\ Separable(last.input)) =>
    /\ last.outcome = "ok"
    /\ \A i \in 1..Len(last.input) :
         last.results[i].predicted_transcript = last.input[i].transcript
    /\ last.report[1].accuracy = [num |-> 1, den |-> 1]
    /\ last.report[1].total_samples = Len(last.input)
    /\ \A t, p \in Labels : t # p => ConfusionCount(last.report[1].confusion, t, p) = 0

\* A self-evaluation on a separable dataset of three samples with two labels.
C9_Witness ==
  /\ last.op = "evaluate" /\ FittedOn(last.input) /\ Separable(last.input)
  /\ Len(last.input) = 3
  /\ \E i, j \in 1..3 : last.input[i].transcript # last.input[j].transcript

\* C8: extract returns a vector of length 4 + k, k the number of probe
\* frequencies of the configuration, for every signal and every input rate,
\* and the all-zero vector of that length for the empty signal.
C8_FixedFeatureLength ==
  feat.op = "extract" =>
    /\ Len(feat.out) = 4 + Len(feat.config.probe_frequencies)
    /\ feat.signal = <<>> => \A k \in 1..Len(feat.out) : feat.out[k] = ZeroFeature

\* An extraction of a three-sample signal that was resampled, with two
\* probes, the first of non-zero power.
C8_Witness ==
  /\ feat.op = "extract"
  /\ feat.sample_rate # feat.config.sample_rate
  /\ Len(feat.signal) = 3
  /\ Len(feat.config.probe_frequencies) = 2
  /\ Len(feat.out) = 6 /\ feat.out[5] # ZeroFeature

\* The pairs the claim counts: prev >= 0 and next < 0, or prev < 0 and
\* next >= 0.
ClaimedCrossing(prev, value) ==
  \/ (prev.num >= 0 /\ value.num < 0)
  \/ (prev.num < 0 /\ value.num >= 0)

\* C10: the zero-crossing rate of a signal of n >= 2 samples is the number
\* of adjacent pairs (prev, next) with prev >= 0 > next or prev < 0 <= next,
\* divided by n - 1; it is 0 for n < 2; it lies in [0, 1].
C10_ZeroCrossingRate ==
  feat.op = "zcr" =>
    LET n == Len(feat.signal)
        crossings == Cardinality({ i \in 2..n :
                                     ClaimedCrossing(feat.signal[i - 1], feat.signal[i]) })
    IN  /\ n < 2 => feat.out[1] = ZeroFeature
        /\ n >= 2 => feat.out[1] = Real(Rat(crossings, n - 1))
        /\ 0 <= feat.out[1].num /\ feat.out[1].num <= feat.out[1].den

====
